---- MODULE Spec2Model ----
(***************************************************************************)
(* The embedder-facing boundary of the WireGuard server (src/src/lib.rs):  *)
(* the stream handle TcpStream, the server handle WireguardServer, the     *)
(* command channel py_to_smol, the event channel smol_to_py, and the three *)
(* tasks spawned by WireguardServer::init.  The bodies of the engine task  *)
(* and of the stack task live in the modules wireguard and tcp; the steps  *)
(* of those two tasks follow the design document (sections 4.2, 4.4, 4.5   *)
(* and 5).                                                                 *)
(***************************************************************************)
EXTENDS Integers, Sequences, FiniteSets, TLC

\* ---------------------------------------------------------------- bounds
\* inputs of one run: TCP flows accepted, UDP datagrams received and calls
\* made by the embedder (stop() and the Drop of a handle included)
MaxOps == 4

\* capacity of the event channel, channel(64)
EventCap == 64

ConnIds == 1..MaxOps

VARIABLES
    stop_pc,     \* position inside WireguardServer::stop: 0 = not running
    stops,       \* number of stop() calls that have returned
    drops,       \* number of stream handles the embedder has released
    config,      \* the arguments of start_server: "valid" or what is wrong
    init_pc,     \* next statement of WireguardServer::init
    server,      \* the embedder's server handle: "none" until start_server
                 \* resolves, then "held" or "dropped"; "failed" when
                 \* start_server raised
    wg_permit,   \* permit stored in wg_stopper (tokio Notify)
    tcp_permit,  \* permit stored in tcp_stopper
    wg_task,     \* _wg_handle task: "unspawned", "running" or "done"
    tcp_task,    \* _tcp_handle task: "unspawned", "running" or "done"
    abort_req,   \* python_notify_task.abort() has been called
    dispatcher,  \* python_notify_task: "unspawned", "running", "cancelled"
                 \* or "finished"
    events,      \* smol_to_py channel contents
    cmds,        \* py_to_smol channel contents
    calls,       \* log of the embedder's method calls and their outcome
    stopMark,    \* calls whose reply was outstanding when stop() signalled
    table,       \* the bridge's table ConnectionId -> socket and waiters
    next_id,     \* next ConnectionId the bridge allocates
    dgrams,      \* datagrams received so far
    handles,     \* ConnectionIds of the stream handles the embedder holds
    loopq,       \* callables/coroutines posted to the embedder loop
    hc_count,    \* per ConnectionEstablished id: handle_connection invocations
    given,       \* per ConnectionId: stream handles made with that id
    threads,     \* <<embedder code, thread it was started on>> seen so far
    taken        \* per connection: the latest call whose command the stack took

vars == <<config, init_pc, stop_pc, stops, drops, server, wg_permit, tcp_permit, wg_task, tcp_task,
          abort_req, dispatcher, events, cmds, calls, stopMark, table,
          next_id, dgrams, handles, loopq, hc_count, given, threads, taken>>

\* ------------------------------------------------------- channel helpers

\* a command channel that stop() closes
RxOpenUntilStop == tcp_task # "done" /\ stops = 0

\* the command receiver lives inside tcp_server, which the stack task owns
RxOpen == tcp_task # "done"

\* a drop-in bounded variant that discards at capacity 1
ChanSendLossy(q, m) == IF Len(q) >= 1 THEN q ELSE Append(q, m)

\* a variant that puts the newest command in front
ChanSendFront(q, m) == <<m>> \o q

\* UnboundedSender::send on an open channel: FIFO, never full
ChanSend(q, m) == Append(q, m)

Cmd(op, c, k, half) == [op |-> op, c |-> c, k |-> k, half |-> half]

\* the reply of a read()/drain() future: RecvError maps to connection_closed
ReplyResult(op, sent) ==
    IF ~sent THEN "closed" ELSE IF op = "ReadData" THEN "value" ELSE "done"

Resolve(cs, ks, sent) ==
    [k \in DOMAIN cs |->
        IF k \in ks /\ cs[k].res = "pending"
        THEN [cs[k] EXCEPT !.res = ReplyResult(cs[k].op, sent)]
        ELSE cs[k]]

\* a permit that is lost when one is already signalled
NotifyOneToggle(p) == ~p

\* a notify that never stores its permit
NotifyOneLost(p) == p

\* Notify::notify_one: stores one permit (at most one is ever stored)
NotifyOne(p) == TRUE

\* start_server arguments: well-formed, or with one configuration error
Configs == {"valid", "bad_private_key", "bad_peer_key", "bad_bind",
            "duplicate_peer"}

NoEntry == [state |-> "none", rd |-> 0, dr |-> 0]

Init ==
    /\ config \in Configs
    /\ init_pc = 1
    /\ stop_pc = 0
    /\ stops = 0
    /\ drops = 0
    /\ server = "none"
    /\ wg_permit = FALSE
    /\ tcp_permit = FALSE
    /\ wg_task = "unspawned"
    /\ tcp_task = "unspawned"
    /\ abort_req = FALSE
    /\ dispatcher = "unspawned"
    /\ events = <<>>
    /\ cmds = <<>>
    /\ calls = <<>>
    /\ stopMark = {}
    /\ table = [c \in ConnIds |-> NoEntry]
    /\ next_id = 1
    /\ dgrams = 0
    /\ handles = {}
    /\ loopq = <<>>
    /\ hc_count = [c \in ConnIds |-> 0]
    /\ given = [c \in ConnIds |-> 0]
    /\ threads = {}
    /\ taken = [c \in ConnIds |-> 0]

\* ------------------------------------------------ WireguardServer::init

\* the statements of init, in program order
NInitStmts == 10

\* the engine task is spawned before the socket is bound
InitStmtSpawnEarly(n) ==
    CASE n = 1 -> "parse_private_key" [] n = 2 -> "parse_peers"
      [] n = 3 -> "get_loop" [] n = 4 -> "spawn_wg" [] n = 5 -> "bind"
      [] n = 6 -> "add_peers" [] n = 7 -> "new_tcp" [] n = 8 -> "spawn_tcp"
      [] n = 9 -> "spawn_notify" [] OTHER -> "return"

\* the tasks are launched only after the server handle is handed over
InitStmtSpawnLate(n) ==
    CASE n = 1 -> "parse_private_key" [] n = 2 -> "parse_peers"
      [] n = 3 -> "get_loop" [] n = 4 -> "bind" [] n = 5 -> "add_peers"
      [] n = 6 -> "new_tcp" [] n = 7 -> "return" [] n = 8 -> "spawn_wg"
      [] n = 9 -> "spawn_tcp" [] OTHER -> "spawn_notify"

\* the n-th statement of init; "return" is Ok(WireguardServer { .. }),
\* which resolves the future of start_server
InitStmt(n) ==
    CASE n = 1 -> "parse_private_key" [] n = 2 -> "parse_peers"
      [] n = 3 -> "get_loop" [] n = 4 -> "bind" [] n = 5 -> "add_peers"
      [] n = 6 -> "new_tcp" [] n = 7 -> "spawn_wg" [] n = 8 -> "spawn_tcp"
      [] n = 9 -> "spawn_notify" [] OTHER -> "return"

\* WireguardServerBuilder::add_peer refuses a peer it already has
AddPeerRejects == {"duplicate_peer"}

\* the configurations on which statement st returns its error through `?`
Faults(st) ==
    CASE st = "parse_private_key" -> {"bad_private_key"}
      [] st = "parse_peers" -> {"bad_peer_key"}
      [] st = "bind" -> {"bad_bind"}
      [] st = "add_peers" -> AddPeerRejects
      [] OTHER -> {}

\* the statements whose `?` can also fail on a well-formed configuration
\* (no running loop, port in use, device setup)
EnvFallible == {"get_loop", "bind", "add_peers", "new_tcp"}

\* init runs its next statement, successfully
InitStep ==
    /\ init_pc <= NInitStmts
    /\ server # "failed"
    /\ config \notin Faults(InitStmt(init_pc))
    /\ LET st == InitStmt(init_pc)
       IN /\ wg_task' = IF st = "spawn_wg" THEN "running" ELSE wg_task
          /\ tcp_task' = IF st = "spawn_tcp" THEN "running" ELSE tcp_task
          /\ dispatcher' = IF st = "spawn_notify" THEN "running" ELSE dispatcher
          /\ server' = IF st = "return" THEN "held" ELSE server
    /\ init_pc' = init_pc + 1
    /\ UNCHANGED <<config, stop_pc, stops, drops, wg_permit, tcp_permit,
                   abort_req, events, cmds, calls, stopMark, table, next_id, dgrams,
                   handles, loopq, hc_count, given, threads, taken>>

\* the `?` of the next statement returns the error: start_server raises and
\* no server handle is made; a task already spawned is detached, not stopped
InitFail ==
    /\ init_pc <= NInitStmts
    /\ server = "none"
    /\ \/ config \in Faults(InitStmt(init_pc))
       \/ InitStmt(init_pc) \in EnvFallible
    /\ server' = "failed"
    /\ UNCHANGED <<init_pc, config, stop_pc, stops, drops, wg_permit, tcp_permit,
                   abort_req, wg_task, tcp_task, dispatcher, events, cmds,
                   calls, stopMark, table, next_id, dgrams, handles, loopq,
                   hc_count, given, threads, taken>>

\* ------------------------------------------------- the embedder's calls

stopVars == <<stop_pc, stops, server, wg_permit, tcp_permit, abort_req>>
\* inputs so far: calls made by the embedder, flows accepted, datagrams
Made == Len(calls) + stops + drops + (next_id - 1) + dgrams

taskVars == <<wg_task, tcp_task, dispatcher>>
stackVars == <<table, next_id, dgrams, taken>>
loopVars == <<loopq, hc_count, given, threads>>

\* a method that sends one TransportCommand and maps SendError to
\* event_queue_unavailable
Issue(op, c, half) ==
    /\ stop_pc = 0
    /\ Made < MaxOps
    /\ LET k == Len(calls) + 1
           res == IF ~RxOpen THEN "unavailable"
                  ELSE IF op \in {"ReadData", "DrainWriter"} THEN "pending"
                  ELSE "ok"
       IN /\ calls' = Append(calls, [op |-> op, c |-> c, half |-> half,
                                     res |-> res, afterStop |-> stops > 0])
          /\ cmds' = IF RxOpen THEN ChanSend(cmds, Cmd(op, c, k, half)) ELSE cmds
    /\ UNCHANGED <<init_pc, config, stopVars, taskVars, stackVars, loopVars, events, stopMark,
                   handles, drops>>

Read(c) == c \in handles /\ Issue("ReadData", c, FALSE)

Write(c) == c \in handles /\ Issue("WriteData", c, FALSE)

Drain(c) == c \in handles /\ Issue("DrainWriter", c, FALSE)

WriteEof(c) == c \in handles /\ Issue("CloseConnection", c, TRUE)

Close(c) == c \in handles /\ Issue("CloseConnection", c, FALSE)

\* send_datagram with two well-formed socket addresses (py_to_socketaddr, the
\* address conversion of the embedding boundary, is not part of the model)
SendDatagram == server = "held" /\ Issue("SendDatagram", 0, FALSE)

\* a Drop that half-closes, as write_eof() does
DropCloseHalf(q, c) ==
    IF RxOpen THEN ChanSend(q, Cmd("CloseConnection", c, 0, TRUE)) ELSE q

\* close().ok(): one CloseConnection(id, false) when the channel is open
DropClose(q, c) ==
    IF RxOpen THEN ChanSend(q, Cmd("CloseConnection", c, 0, FALSE)) ELSE q

\* impl Drop for TcpStream, run when the embedder releases the handle
DropStream(c) ==
    /\ stop_pc = 0
    /\ Made < MaxOps
    /\ c \in handles
    /\ drops' = drops + 1
    /\ handles' = handles \ {c}
    /\ cmds' = DropClose(cmds, c)
    /\ UNCHANGED <<init_pc, config, stopVars, taskVars, stackVars, loopVars, events, calls,
                   stopMark>>

\* ------------------------------------------------ WireguardServer::stop

Pending(cs) == {k \in DOMAIN cs : cs[k].res = "pending"}

\* the dispatcher is aborted before the stoppers are signalled
StopStmtAbortFirst(n) ==
    CASE n = 1 -> "abort" [] n = 2 -> "notify_wg" [] OTHER -> "notify_tcp"

\* the n-th statement of stop()
StopStmt(n) ==
    CASE n = 1 -> "notify_wg" [] n = 2 -> "notify_tcp" [] OTHER -> "abort"

\* a Drop that releases the handle without stopping anything
DropStmtNothing(n) == "nothing"

\* impl Drop for WireguardServer: self.stop()
DropStmt(n) == StopStmt(n)

StopEffect(stmt) ==
    /\ wg_permit' = IF stmt = "notify_wg" THEN NotifyOne(wg_permit) ELSE wg_permit
    /\ tcp_permit' = IF stmt = "notify_tcp" THEN NotifyOne(tcp_permit) ELSE tcp_permit
    /\ abort_req' = IF stmt = "abort" THEN TRUE ELSE abort_req
    /\ stopMark' = IF stmt = "notify_tcp" THEN stopMark \cup Pending(calls)
                   ELSE stopMark

\* stop() is entered, by the embedder or by Drop for WireguardServer, and
\* runs its first statement
StopCall(byDrop) ==
    /\ stop_pc = 0
    /\ server = "held"
    /\ Made < MaxOps
    /\ server' = IF byDrop THEN "dropped" ELSE server
    /\ StopEffect(IF byDrop THEN DropStmt(1) ELSE StopStmt(1))
    /\ stop_pc' = 1
    /\ UNCHANGED <<init_pc, config, stops, taskVars, stackVars, loopVars, events, cmds, calls,
                   handles, drops>>

\* stop() runs its next statement; after the third it returns
StopStep ==
    /\ stop_pc \in {1, 2}
    /\ StopEffect(IF server = "dropped" THEN DropStmt(stop_pc + 1)
                                         ELSE StopStmt(stop_pc + 1))
    /\ stop_pc' = IF stop_pc = 2 THEN 0 ELSE 2
    /\ stops' = IF stop_pc = 2 THEN stops + 1 ELSE stops
    /\ UNCHANGED <<init_pc, config, server, taskVars, stackVars, loopVars, events, cmds, calls,
                   handles, drops>>

\* ------------------------------------------------------ the engine task

\* the engine observes its stopper and returns from run()
WgExit ==
    /\ wg_task = "running"
    /\ wg_permit
    /\ wg_task' = "done"
    /\ wg_permit' = FALSE
    /\ UNCHANGED <<init_pc, config, stop_pc, stops, server, tcp_permit, abort_req, tcp_task,
                   dispatcher, stackVars, loopVars, events, cmds, calls,
                   stopMark, handles, drops>>

\* ------------------------------------------------------- the stack task

\* the run loop is suspended or in a batch; a stored shutdown notification
\* is what it sees at its next suspension
StackAwake == tcp_task = "running" /\ ~tcp_permit

\* connection admission: fresh ConnectionId, ConnectionEstablished enqueued
StackAccept ==
    /\ StackAwake
    /\ Made < MaxOps
    /\ dispatcher \in {"unspawned", "running"}
    /\ Len(events) < EventCap
    /\ table' = [table EXCEPT ![next_id] = [NoEntry EXCEPT !.state = "open"]]
    /\ events' = Append(events, [type |-> "ConnectionEstablished", id |-> next_id])
    /\ next_id' = next_id + 1
    /\ UNCHANGED <<init_pc, config, stopVars, taskVars, loopVars, cmds, calls, stopMark, dgrams,
                   handles, drops, taken>>

StackDatagram ==
    /\ StackAwake
    /\ Made < MaxOps
    /\ dispatcher \in {"unspawned", "running"}
    /\ Len(events) < EventCap
    /\ events' = Append(events, [type |-> "DatagramReceived", id |-> dgrams + 1])
    /\ dgrams' = dgrams + 1
    /\ UNCHANGED <<init_pc, config, stopVars, taskVars, loopVars, cmds, calls, stopMark, table,
                   next_id, handles, drops, taken>>

\* waiters a full close of an entry releases
EntryWaiters(e) == {e.rd, e.dr} \ {0}

\* the stack task takes the next command from the command channel
StackCommand ==
    /\ StackAwake
    /\ cmds # <<>>
    /\ LET m == Head(cmds)
           open == m.c \in ConnIds /\ table[m.c].state = "open"
       IN /\ cmds' = Tail(cmds)
          /\ taken' = IF m.k > 0 /\ m.c \in ConnIds
                       THEN [taken EXCEPT ![m.c] = m.k] ELSE taken
          /\ CASE m.op = "ReadData" ->
                    IF open /\ table[m.c].rd = 0
                    THEN /\ table' = [table EXCEPT ![m.c].rd = m.k]
                         /\ calls' = calls
                    ELSE /\ table' = table
                         /\ calls' = Resolve(calls, {m.k}, FALSE)
               [] m.op = "DrainWriter" ->
                    IF open /\ table[m.c].dr = 0
                    THEN /\ table' = [table EXCEPT ![m.c].dr = m.k]
                         /\ calls' = calls
                    ELSE /\ table' = table
                         /\ calls' = Resolve(calls, {m.k}, FALSE)
               [] m.op = "CloseConnection" /\ open /\ ~m.half ->
                    /\ table' = [table EXCEPT ![m.c] =
                                    [state |-> "closed", rd |-> 0, dr |-> 0]]
                    /\ calls' = Resolve(calls, EntryWaiters(table[m.c]), FALSE)
               [] OTHER -> UNCHANGED <<table, calls>>
    /\ UNCHANGED <<init_pc, config, stopVars, taskVars, loopVars, events, stopMark, next_id,
                   dgrams, handles, drops>>

\* data arrives / the send buffer is accepted: an installed waiter completes
StackProgress(c) ==
    /\ StackAwake
    /\ table[c].state = "open"
    /\ \E k \in EntryWaiters(table[c]) :
          /\ calls' = Resolve(calls, {k}, TRUE)
          /\ table' = [table EXCEPT ![c] =
                          [@ EXCEPT !.rd = IF @ = k THEN 0 ELSE @,
                                    !.dr = IF @ = k THEN 0 ELSE @]]
    /\ UNCHANGED <<init_pc, config, stopVars, taskVars, loopVars, events, cmds, stopMark,
                   next_id, dgrams, handles, drops, taken>>

\* reply senders that die with the stack task: those in the table and those
\* still queued in the command channel
HeldReplies ==
    (UNION {EntryWaiters(table[c]) : c \in ConnIds})
      \cup ({cmds[i].k : i \in DOMAIN cmds} \ {0})

\* the stack task observes its stopper and returns from run(): tcp_server,
\* with the command receiver and every waiter, is dropped
StackExit ==
    /\ tcp_task = "running"
    /\ tcp_permit
    /\ tcp_task' = "done"
    /\ tcp_permit' = FALSE
    /\ calls' = Resolve(calls, HeldReplies, FALSE)
    /\ cmds' = <<>>
    /\ table' = [c \in ConnIds |->
                    IF table[c].state = "none" THEN NoEntry
                    ELSE [state |-> "closed", rd |-> 0, dr |-> 0]]
    /\ UNCHANGED <<init_pc, config, stop_pc, stops, server, wg_permit, abort_req, wg_task,
                   dispatcher, loopVars, events, stopMark, next_id, dgrams,
                   handles, drops, taken>>

\* --------------------------------------------------- python_notify_task

\* a receive that leaves the event in the channel
EventsAfterPeek(q) == q

\* a receive that hands out the newest event
RecvEventNewest(q) == q[Len(q)]

\* the event smol_to_py_rx.recv() returns: the oldest in the channel
RecvEvent(q) == Head(q)

\* smol_to_py_rx.recv() takes the oldest event out of the channel
EventsAfterRecv(q) == Tail(q)

\* a stream handle for the next id instead of the event's
StreamIdNext(ev) == (ev.id % MaxOps) + 1

\* a stream handle that carries the id of the first connection
StreamIdStale(ev) == 1

\* TcpStream { connection_id, .. } built from the event
StreamId(ev) == ev.id

\* a callback error that ends the task (a `?` or a return out of the loop)
AfterCallbackErrorExit(d) == "finished"

\* Err(err) => { err.print(py); return; } and if let Err(err) = ... { err.print(py); }
\* leave the with_gil closure only: the while-let loop goes on
AfterCallbackError(d) == d

\* ConnectionEstablished arm.  outcome: "ok", "call_err" (the handler call
\* raised) or "post_err" (run_coroutine_threadsafe raised); on an error the
\* stream object is released and its Drop runs
DispatchConnection(outcome) ==
    /\ dispatcher = "running"
    /\ events # <<>>
    /\ RecvEvent(events).type = "ConnectionEstablished"
    /\ LET ev == RecvEvent(events)
           c == StreamId(ev)
       IN /\ events' = EventsAfterRecv(events)
          /\ hc_count' = [hc_count EXCEPT ![ev.id] = @ + 1]
          /\ given' = [given EXCEPT ![c] = @ + 1]
          /\ threads' = threads \cup {<<"handle_connection", "dispatcher">>}
          /\ IF outcome = "ok"
             THEN /\ loopq' = Append(loopq, [kind |-> "coroutine", id |-> c])
                  /\ cmds' = cmds
             ELSE /\ loopq' = loopq
                  /\ cmds' = DropClose(cmds, c)
    /\ dispatcher' = IF outcome = "ok" THEN dispatcher
                     ELSE AfterCallbackError(dispatcher)
    /\ UNCHANGED <<init_pc, config, stopVars, wg_task, tcp_task, stackVars, calls, stopMark,
                   handles, drops>>

\* DatagramReceived arm: call_soon_threadsafe(py_udp_handler, ...)
DispatchDatagram(outcome) ==
    /\ dispatcher = "running"
    /\ events # <<>>
    /\ RecvEvent(events).type = "DatagramReceived"
    /\ events' = EventsAfterRecv(events)
    /\ loopq' = IF outcome = "ok"
                THEN Append(loopq, [kind |-> "callable",
                                    id |-> RecvEvent(events).id])
                ELSE loopq
    /\ dispatcher' = IF outcome = "ok" THEN dispatcher
                     ELSE AfterCallbackError(dispatcher)
    /\ UNCHANGED <<init_pc, config, stopVars, wg_task, tcp_task, stackVars, cmds, calls,
                   stopMark, handles, drops, hc_count, given, threads>>

Dispatch ==
    \/ \E o \in {"ok", "call_err", "post_err"} : DispatchConnection(o)
    \/ \E o \in {"ok", "post_err"} : DispatchDatagram(o)

\* the abort takes effect at the task's next yield: the future is dropped
DispatcherCancel ==
    /\ dispatcher = "running"
    /\ abort_req
    /\ dispatcher' = "cancelled"
    /\ events' = <<>>
    /\ UNCHANGED <<init_pc, config, stopVars, wg_task, tcp_task, stackVars, loopVars, cmds,
                   calls, stopMark, handles, drops>>

\* recv() returns None: every sender is gone and the channel is empty
DispatcherFinish ==
    /\ dispatcher = "running"
    /\ tcp_task = "done"
    /\ events = <<>>
    /\ dispatcher' = "finished"
    /\ UNCHANGED <<init_pc, config, stopVars, wg_task, tcp_task, stackVars, loopVars, events,
                   cmds, calls, stopMark, handles, drops>>

\* ---------------------------------------------------- the embedder loop

\* the embedder loop runs the next posted item on its own thread
LoopRun ==
    /\ loopq # <<>>
    /\ LET it == Head(loopq)
       IN /\ loopq' = Tail(loopq)
          /\ IF it.kind = "coroutine"
             THEN /\ handles' = handles \cup {it.id}
                  /\ threads' = threads
             ELSE /\ handles' = handles
                  /\ threads' = threads \cup {<<"receive_datagram", "loop">>}
    /\ UNCHANGED <<init_pc, config, stopVars, taskVars, stackVars, events, cmds, calls, stopMark,
                   hc_count, given, drops>>

Next ==
    \/ InitStep
    \/ InitFail
    \/ \E c \in ConnIds : Read(c)
    \/ \E c \in ConnIds : Write(c)
    \/ \E c \in ConnIds : Drain(c)
    \/ \E c \in ConnIds : WriteEof(c)
    \/ \E c \in ConnIds : Close(c)
    \/ SendDatagram
    \/ \E c \in ConnIds : DropStream(c)
    \/ \E d \in BOOLEAN : StopCall(d)
    \/ StopStep
    \/ WgExit
    \/ StackAccept
    \/ StackDatagram
    \/ StackCommand
    \/ \E c \in ConnIds : StackProgress(c)
    \/ StackExit
    \/ Dispatch
    \/ DispatcherCancel
    \/ DispatcherFinish
    \/ LoopRun

Spec == Init /\ [][Next]_vars

\* the tokio scheduler polls a task that has been woken: the stack task, by
\* the permit stored in its stopper
FairSpec == Spec /\ WF_vars(StackExit)

\* a step of the shutdown: stop() running on, a signalled task returning,
\* the aborted dispatcher being dropped
ShutdownStep == StopStep \/ WgExit \/ StackExit \/ DispatcherCancel

\* stop() is synchronous code and runs to its end; the scheduler polls each
\* task that a stopper has woken and drops a task that has been aborted.
\* Each of these steps happens a bounded number of times and none disables
\* another, so fairness of their disjunction is fairness of each.
FairShutdown == Spec /\ WF_vars(ShutdownStep)

\* ================================================================ claims

Calls == DOMAIN calls
EventIds == {events[i].id : i \in {j \in DOMAIN events :
                                     events[j].type = "ConnectionEstablished"}}
Accepted == 1..(next_id - 1)
PendingWrites == Cardinality({i \in DOMAIN cmds : cmds[i].op = "WriteData"})

\* C1: every command issued after stop() has returned fails with
\* the unavailable signal; none returns success or is enqueued.
C1_AfterStopUnavailable ==
    \A k \in Calls :
        calls[k].afterStop => calls[k].res = "unavailable"

\* C2: every send_datagram, write or read issued after stop() completes with
\* the unavailable or the closed signal (a read may still be awaiting it).
C2_AfterStopUnavailableOrClosed ==
    \A k \in Calls :
        /\ calls[k].afterStop
        /\ calls[k].op \in {"SendDatagram", "WriteData", "ReadData"}
        => calls[k].res \in {"unavailable", "closed", "pending"}

\* C2, the part about hanging: a read or drain accepted after stop() has its
\* reply resolved.
C2_NeverHangs ==
    \A k \in 1..MaxOps :
        (k \in Calls /\ calls[k].afterStop)
            ~> (k \in Calls /\ calls[k].res # "pending")

SysState ==
    <<wg_task, tcp_task, dispatcher, abort_req,
      wg_permit /\ wg_task = "running", tcp_permit /\ tcp_task = "running",
      events, cmds, calls, table, handles, loopq>>

\* C4: a stop() after the first (the one made by Drop included) changes
\* nothing: tasks, stoppers, abort state, channels and replies stay as the
\* first call left them.
C4_StopIdempotent ==
    [][(stops >= 1 /\ stop_pc' # stop_pc) => SysState' = SysState]_vars

C4_Witness == stops = 2 /\ server = "dropped" /\ abort_req

\* C5 as stated: the dispatcher is never aborted while the engine task or
\* the stack task is still running.
C5_AbortAfterWorkersExit ==
    abort_req => wg_task = "done" /\ tcp_task = "done"

\* C5 amended: when the abort is requested both stoppers have been
\* signalled (the permit is stored or the task has consumed it and exited).
C5_SignalsBeforeAbort ==
    abort_req => /\ (wg_permit \/ wg_task = "done")
                 /\ (tcp_permit \/ tcp_task = "done")

C5_Witness ==
    abort_req /\ wg_task = "running" /\ tcp_task = "running" /\ stops = 1

\* C6: an embedder callable (handle_connection, receive_datagram) is only
\* ever started on the embedder loop's thread.
C6_CallbacksOnLoop ==
    \A t \in threads :
        t[1] \in {"handle_connection", "receive_datagram"} => t[2] = "loop"

\* C7: a command for connection c is in the command channel, was issued, was
\* taken by the stack or holds a waiter only after the dispatcher dequeued
\* ConnectionEstablished(c) and called handle_connection with its stream.
C7_EstablishedFirst ==
    LET Handed(c) == hc_count[c] >= 1 /\ c \notin EventIds
    IN /\ \A i \in DOMAIN cmds : cmds[i].c \in ConnIds => Handed(cmds[i].c)
       /\ \A k \in Calls : calls[k].c \in ConnIds => Handed(calls[k].c)
       /\ \A c \in handles : Handed(c)
       /\ \A c \in ConnIds :
             taken[c] > 0 \/ table[c].rd > 0 \/ table[c].dr > 0 => Handed(c)

C7_Witness ==
    \E k \in Calls :
        /\ calls[k].op = "ReadData" /\ calls[k].res = "value"
        /\ \E c \in EventIds : c # calls[k].c

C9_PerConnectionOrder ==
    [][\A c \in ConnIds : taken'[c] >= taken[c]]_vars

C9_Witness ==
    \E c \in ConnIds :
        /\ taken[c] = 1 /\ calls[1].op = "WriteData"
        /\ Len(cmds) >= 2
        /\ cmds[1].c # c
        /\ cmds[2].c = c /\ cmds[2].op = "WriteData" /\ cmds[2].k = 2

\* C10 as stated, for the bound B = MaxOps - 2: the WriteData commands
\* pending in the core stay below the number of writes the embedder can make
\* on one connection.
C10_WriteBufferBounded == PendingWrites < MaxOps - 1

\* C10 amended: no write is refused or discarded for lack of room: every
\* write() accepted while the stack task lives stays queued until the stack
\* task takes it, so the pending amount is bounded only by what is written.
C10_EveryWriteQueued ==
    \A k \in Calls :
        calls[k].op = "WriteData" /\ calls[k].res = "ok" =>
            \/ \E i \in DOMAIN cmds : cmds[i].k = k
            \/ taken[calls[k].c] >= k
            \/ tcp_task = "done"

C10_Witness == PendingWrites = MaxOps - 1 /\ tcp_task = "running"

\* C11: a failing embedder callback (handle_connection raising, or the
\* posting of its coroutine or of receive_datagram failing) ends no task:
\* the dispatcher ends only by the abort of stop() or by the event channel
\* closing empty, and a worker task ends only after stop() has signalled it.
C11_CallbackErrorSurvived ==
    /\ dispatcher = "cancelled" => abort_req
    /\ dispatcher = "finished" => tcp_task = "done" /\ events = <<>>
    /\ (wg_task = "done" \/ tcp_task = "done") => (stop_pc > 0 \/ stops > 0)

\* handle_connection failed for connection c (invoked, no coroutine posted,
\* no handle ever held), and the later event d was still dispatched
C11_Witness ==
    /\ drops = 0
    /\ dispatcher = "running" /\ wg_task = "running" /\ tcp_task = "running"
    /\ \E c, d \in ConnIds :
          /\ c < d
          /\ hc_count[c] = 1 /\ c \notin handles
          /\ \A i \in DOMAIN loopq :
                ~(loopq[i].kind = "coroutine" /\ loopq[i].id = c)
          /\ d \in handles

\* what the release of a stream handle with ConnectionId c does to the
\* command channel
DroppedClose(c) ==
    cmds' = IF tcp_task = "running"
            THEN Append(cmds, Cmd("CloseConnection", c, 0, FALSE))
            ELSE cmds

\* C12: the release of a stream handle, by the embedder or by the dispatcher
\* after a failed callback, sends exactly one CloseConnection(id, half=false)
\* for the handle's own id while the command channel is open, and does
\* nothing at all once the channel is closed; no call fails and no other
\* state changes.
C12_DropClosesOnce ==
    [][/\ drops' = drops + 1 =>
            /\ \E c \in handles : handles' = handles \ {c} /\ DroppedClose(c)
            /\ UNCHANGED <<calls, events, table, loopq, wg_task, tcp_task,
                           dispatcher, stopVars>>
       /\ (hc_count' # hc_count /\ loopq' = loopq) =>
            \E c \in ConnIds : hc_count'[c] # hc_count[c] /\ DroppedClose(c)
      ]_vars

\* the only handle ever made was released while the stack task lived, and
\* its CloseConnection is the only command queued
C12_Witness ==
    /\ drops = 1 /\ next_id = 2 /\ hc_count[1] = 1 /\ handles = {}
    /\ tcp_task = "running"
    /\ cmds = <<Cmd("CloseConnection", 1, 0, FALSE)>>

\* C13: a configuration error (private key, peer key, bind address, peer
\* set) makes start_server fail: no server handle is ever produced for such
\* a configuration, and when start_server has failed none of the engine,
\* stack and dispatcher tasks has been spawned and nothing was queued.
C13_ConfigErrorFatal ==
    /\ config # "valid" => server \in {"none", "failed"}
    /\ (config # "valid" \/ server = "failed") =>
          /\ wg_task = "unspawned" /\ tcp_task = "unspawned"
          /\ dispatcher = "unspawned"
          /\ events = <<>> /\ cmds = <<>> /\ loopq = <<>> /\ handles = {}

\* the bind address was refused after both keys had parsed
C13_Witness ==
    /\ config = "bad_bind" /\ server = "failed"
    /\ InitStmt(init_pc) = "bind" /\ wg_task = "unspawned"

\* C14: no two stream handles passed to handle_connection carry the same
\* ConnectionId, a handle's id is one the bridge allocated, and the ids in
\* use (open or closed) are exactly those below the next one to allocate,
\* so the id of a closed connection is never allocated or handed out again.
C14_UniqueConnectionIds ==
    \A c \in ConnIds :
        /\ given[c] <= 1
        /\ given[c] = 1 => c \in Accepted
        /\ table[c].state # "none" <=> c \in Accepted

\* connection 1 was closed; the handle of the later connection 2 carries
\* its own id
C14_Witness ==
    /\ given[1] = 1 /\ given[2] = 1
    /\ table[1].state = "closed" /\ table[2].state = "open"
    /\ 2 \in handles /\ tcp_task = "running"

\* C15: the Drop of the server handle runs the sequence of stop(): once it
\* has returned both stoppers have been signalled and the dispatcher abort
\* requested, and after the drop (which is for good) there comes a point
\* from which the engine task, the stack task and the dispatcher have all
\* terminated.
C15_DropStops ==
    /\ [](server = "dropped" /\ stop_pc = 0 =>
            /\ abort_req
            /\ wg_permit \/ wg_task = "done"
            /\ tcp_permit \/ tcp_task = "done")
    /\ <>[](server = "dropped" =>
              /\ wg_task = "done" /\ tcp_task = "done"
              /\ dispatcher \in {"cancelled", "finished"})

\* the handle was dropped without any stop() call before it, and the three
\* tasks are gone
C15_Witness ==
    /\ server = "dropped" /\ stops = 1 /\ stop_pc = 0
    /\ wg_task = "done" /\ tcp_task = "done" /\ dispatcher = "cancelled"

\* C16: the engine, stack and dispatcher tasks are launched before the
\* server handle reaches the embedder: whenever the embedder has (or has
\* had) the handle all three have been spawned, and any handle_connection
\* invoked while it has none found start_server not yet resolved.
C16_SpawnedBeforeHandle ==
    /\ server \in {"held", "dropped"} =>
          /\ wg_task # "unspawned" /\ tcp_task # "unspawned"
          /\ dispatcher # "unspawned"
    /\ (server = "none" /\ \E c \in ConnIds : hc_count[c] > 0) =>
          InitStmt(init_pc) = "return"

\* the race: handle_connection has been invoked for the first
\* ConnectionEstablished and start_server has not resolved yet
C16_Witness ==
    /\ server = "none" /\ InitStmt(init_pc) = "return"
    /\ hc_count[1] = 1 /\ given[1] = 1
    /\ <<"handle_connection", "dispatcher">> \in threads

\* C17: a command send fails with the unavailable signal exactly when the
\* stack task has terminated (and with it the command receiver); while the
\* stack task lives the command is appended to the channel, whether or not
\* stop() has been called and however many commands are queued.
C17_UnavailableOnlyAfterExit ==
    [][Len(calls') > Len(calls) =>
          LET k == Len(calls')
          IN /\ calls'[k].res = "unavailable" <=> tcp_task = "done"
             /\ tcp_task # "done" =>
                   /\ Len(cmds') = Len(cmds) + 1
                   /\ cmds'[Len(cmds')].k = k
             /\ tcp_task = "done" => cmds' = cmds
      ]_vars

\* a send made after stop() returned, behind two queued commands, succeeded
\* because the stack task had not yet exited
C17_Witness ==
    /\ tcp_task = "running" /\ Len(cmds) >= 3
    /\ \E k \in Calls :
          /\ calls[k].afterStop /\ calls[k].res = "ok"
          /\ cmds[Len(cmds)].k = k

\* the posting an event gives rise to
PostingOf(ev) ==
    [kind |-> IF ev.type = "ConnectionEstablished" THEN "coroutine"
              ELSE "callable",
     id |-> ev.id]

\* C18: the dispatcher consumes the event channel one event at a time from
\* its head, and posts for the event it took, at the tail of the loop's
\* queue, at most one item; the channel itself grows only at its tail.  The
\* postings are therefore in the order of the events, none twice.
C18_DispatchInOrder ==
    [][/\ (Len(events') < Len(events) /\ dispatcher' # "cancelled") =>
            /\ events' = Tail(events)
            /\ \/ loopq' = loopq
               \/ loopq' = Append(loopq, PostingOf(Head(events)))
            /\ \A c \in ConnIds :
                  hc_count'[c] # hc_count[c] =>
                      Head(events) = [type |-> "ConnectionEstablished", id |-> c]
       /\ Len(events') > Len(events) =>
            events' = Append(events, events'[Len(events')])
       /\ Len(loopq') > Len(loopq) => Len(events') < Len(events)
      ]_vars

\* a datagram and a connection were posted in that order while a third
\* event waits in the channel
C18_Witness ==
    /\ Len(loopq) = 2 /\ events # <<>>
    /\ loopq[1].kind = "callable" /\ loopq[2].kind = "coroutine"
    /\ dispatcher = "running"

====
